---------------------------- MODULE Spec2Model ----------------------------
(***************************************************************************)
(* CodeBro chat backend (src/main.py): the rule-based responder, the       *)
(* conversation/message store and the four API handlers that use it.       *)
(*                                                                         *)
(* Text is a sequence of one-character strings, so that strip(), lower(),  *)
(* slicing and the substring test `x in m` are computed character by       *)
(* character.  A canned reply is a sequence holding one atom: the literal  *)
(* reply text (its emoji and arrow written in ASCII).                      *)
(***************************************************************************)
EXTENDS Integers, Sequences, FiniteSets, TLC

VARIABLES
    db,            \* the process-wide store handle: "ok", or None when not configured
    conversation,  \* collection db["conversation"], in insertion order
    message,       \* collection db["message"], in insertion order
    clock,         \* the store's clock: the creation timestamp of the next document
    faults,        \* how many more store writes the environment may make fail
    req,           \* the requests: arguments, position in the handler, locals, response
    brainIn,       \* the responder's input (specification SpecBrain)
    brainOut,      \* the responder's output
    brainDone      \* whether the responder has been applied

vars == <<db, conversation, message, clock, faults, req, brainIn, brainOut, brainDone>>

storeVars == <<db, conversation, message, clock, faults, req>>

brainVars == <<brainIn, brainOut, brainDone>>

\* Python's None, as a value distinct from every text
None == <<"None">>

\* db when the store is not configured
NoDb == "None"

\* ------------------------------------------------------------------ bounds

\* requests of a run that handles them one at a time
MaxReqs == 2

\* requests of a run that handles them concurrently
ConcReqs == 2

\* store writes that may fail in a run
MaxFaults == 1

\* the store's clock when the model starts
Epoch == 10

\* fragments concatenated into a responder input
MaxWords == 2

\* ------------------------------------------------------------------- text

Whitespace == {" ", "\t", "\n", "\r"}

UpperLetters == <<"A","B","C","D","E","F","G","H","I","J","K","L","M",
                  "N","O","P","Q","R","S","T","U","V","W","X","Y","Z">>

LowerLetters == <<"a","b","c","d","e","f","g","h","i","j","k","l","m",
                  "n","o","p","q","r","s","t","u","v","w","x","y","z">>

LowerChar(c) ==
    IF \E i \in 1..Len(UpperLetters) : UpperLetters[i] = c
    THEN LowerLetters[CHOOSE i \in 1..Len(UpperLetters) : UpperLetters[i] = c]
    ELSE c

UpperChar(c) ==
    IF \E i \in 1..Len(LowerLetters) : LowerLetters[i] = c
    THEN UpperLetters[CHOOSE i \in 1..Len(LowerLetters) : LowerLetters[i] = c]
    ELSE c

\* str.lower()
Lower(s) == [i \in 1..Len(s) |-> LowerChar(s[i])]

\* str.upper() (how a caller may rewrite an identifier it was given)
Upper(s) == [i \in 1..Len(s) |-> UpperChar(s[i])]

\* str.strip(): leading and trailing whitespace removed
Strip(s) ==
    LET keep == {i \in 1..Len(s) : s[i] \notin Whitespace}
    IN  IF keep = {} THEN <<>>
        ELSE LET lo == CHOOSE i \in keep : \A j \in keep : i <= j
                 hi == CHOOSE i \in keep : \A j \in keep : j <= i
             IN  SubSeq(s, lo, hi)

\* x in m, for strings: x is a contiguous part of m
In(x, m) ==
    \E i \in 0..(Len(m) - Len(x)) : SubSeq(m, i + 1, i + Len(x)) = x

\* s[:n]
Prefix(s, n) == SubSeq(s, 1, IF Len(s) < n THEN Len(s) ELSE n)

\* ------------------------------------------------------------ responder

kw_hello == <<"h","e","l","l","o">>
kw_hi == <<"h","i">>
kw_hey == <<"h","e","y">>
kw_deploy == <<"d","e","p","l","o","y">>
kw_deployment == <<"d","e","p","l","o","y","m","e","n","t">>
kw_react == <<"r","e","a","c","t">>
kw_fastapi == <<"f","a","s","t","a","p","i">>
kw_python == <<"p","y","t","h","o","n">>
kw_mongodb == <<"m","o","n","g","o","d","b">>
kw_mongo == <<"m","o","n","g","o">>
kw_database == <<"d","a","t","a","b","a","s","e">>
kw_tailwind == <<"t","a","i","l","w","i","n","d">>
kw_code == <<"c","o","d","e">>
kw_bug == <<"b","u","g">>
kw_error == <<"e","r","r","o","r">>
kw_fix == <<"f","i","x">>

GreetingReply ==
    <<"Hey! I'm CodeBro - your coding sidekick. Ask me about React, FastAPI, MongoDB, Tailwind, or deployment!">>

DeployReply ==
    <<"Deployment tips:\n- Frontend: build with Vite (npm run build) and host static files (Vercel/Netlify).\n- Backend: use FastAPI + Uvicorn on a server (Railway/Render/Fly.io).\n- Set DATABASE_URL and DATABASE_NAME env vars.\n- Enable CORS and point frontend to your backend URL via VITE_BACKEND_URL.">>

ReactReply ==
    <<"In React with Vite: manage state with hooks (useState/useEffect), fetch from your API using fetch/axios, and use Tailwind for rapid UI.\nNeed a quick example?\n\nuseEffect(() => { fetch('/api').then(r=>r.json()).then(setData); }, []);">>

FastapiReply ==
    <<"FastAPI quickstart:\n\nfrom fastapi import FastAPI\napp = FastAPI()\n@app.get('/')\ndef home(): return {'ok': True}\n\nRun with: uvicorn main:app --reload">>

MongoReply ==
    <<"MongoDB patterns:\n- Use a single client and reuse the db handle.\n- Store timestamps (created_at/updated_at).\n- Index frequent query fields.\n- Keep references by storing ObjectId as string if you prefer simple JSON APIs.">>

TailwindReply ==
    <<"Tailwind tip: compose utilities and extract components when repeated. Use container, max-w-*, and prose for long content.">>

DebugReply ==
    <<"Debug flow I recommend:\n1) Reproduce reliably.\n2) Read the exact error and the stack.\n3) Minimize to a tiny snippet.\n4) Add logs/prints.\n5) Fix, then add a test to avoid regressions.">>

DefaultHead ==
    <<"I hear you! Here's a quick, actionable reply:\n\n- Summary: you said -> \"">>

DefaultTail ==
    <<"\"\n- Next step: break it into smaller tasks and tackle them one by one.\n- Want code? Paste a snippet and I'll review it.">>

\* a responder that tests the deploy rule before the greeting rule
codebro_brain_deployFirst(user_message) ==
    LET m == Lower(Strip(user_message))
    IN  IF In(kw_deploy, m) \/ In(kw_deployment, m) THEN DeployReply
        ELSE IF In(kw_hello, m) \/ In(kw_hi, m) \/ In(kw_hey, m) THEN GreetingReply
        ELSE IF In(kw_react, m) THEN ReactReply
        ELSE IF In(kw_fastapi, m) \/ In(kw_python, m) THEN FastapiReply
        ELSE IF In(kw_mongodb, m) \/ In(kw_mongo, m) \/ In(kw_database, m) THEN MongoReply
        ELSE IF In(kw_tailwind, m) THEN TailwindReply
        ELSE IF In(kw_code, m) \/ In(kw_bug, m) \/ In(kw_error, m) \/ In(kw_fix, m)
             THEN DebugReply
        ELSE DefaultHead \o Strip(user_message) \o DefaultTail

codebro_brain(user_message) ==
    LET m == Lower(Strip(user_message))
    IN  IF \E x \in {kw_hello, kw_hi, kw_hey} : In(x, m) THEN GreetingReply
        ELSE IF In(kw_deploy, m) \/ In(kw_deployment, m) THEN DeployReply
        ELSE IF In(kw_react, m) THEN ReactReply
        ELSE IF In(kw_fastapi, m) \/ In(kw_python, m) THEN FastapiReply
        ELSE IF In(kw_mongodb, m) \/ In(kw_mongo, m) \/ In(kw_database, m) THEN MongoReply
        ELSE IF In(kw_tailwind, m) THEN TailwindReply
        ELSE IF In(kw_code, m) \/ In(kw_bug, m) \/ In(kw_error, m) \/ In(kw_fix, m)
             THEN DebugReply
        ELSE DefaultHead \o Strip(user_message) \o DefaultTail


\* ------------------------------------------------------------- ObjectId

HexDigits == <<"0","1","2","3","4","5","6","7","8","9","a","b","c","d","e","f">>

IsHex(c) == \E i \in 1..Len(HexDigits) : HexDigits[i] = LowerChar(c)

HexVal(c) == (CHOOSE i \in 1..Len(HexDigits) : HexDigits[i] = LowerChar(c)) - 1

\* an ObjectId is 12 bytes
ObjectIdLen == 12

\* str(ObjectId): two lowercase hex digits per byte
ObjectIdStr(oid) ==
    [i \in 1..(2 * Len(oid)) |->
        IF i % 2 = 1 THEN HexDigits[(oid[(i + 1) \div 2] \div 16) + 1]
                     ELSE HexDigits[(oid[i \div 2] % 16) + 1]]

\* whether ObjectId(s) accepts s; otherwise it raises InvalidId
ObjectIdValid(s) ==
    /\ Len(s) = 2 * ObjectIdLen
    /\ \A i \in 1..Len(s) : IsHex(s[i])

\* ObjectId(s), for a string it accepts: hex digits of either case
ObjectId(s) ==
    [i \in 1..ObjectIdLen |-> 16 * HexVal(s[2 * i - 1]) + HexVal(s[2 * i])]

\* the n-th identifier the store generates
NewObjectId(n) ==
    [i \in 1..ObjectIdLen |->
        IF i = ObjectIdLen THEN n % 256
        ELSE IF i = ObjectIdLen - 1 THEN (n \div 256) % 256
        ELSE 0]

\* ---------------------------------------------------------------- store

\* datetime.isoformat()
isoformat(t) == [isoformat |-> t]

serialize_doc(doc) ==
    [k \in DOMAIN doc |->
        IF k = "_id" THEN ObjectIdStr(doc[k])
        ELSE IF k = "created_at" THEN isoformat(doc[k])
        ELSE doc[k]]

\* the document create_document inserts: the fields, the store's identifier and
\* creation timestamp
NewDocument(fields) ==
    [_id |-> NewObjectId(clock), created_at |-> clock] @@ fields

\* the identifier create_document returns
NewDocumentId == ObjectIdStr(NewObjectId(clock))

\* find({field: value}): the documents of a collection that match, in
\* insertion order
Find(coll, field, value) ==
    LET hits == {i \in 1..Len(coll) : coll[i][field] = value}
    IN  [k \in 1..Cardinality(hits) |->
            coll[CHOOSE i \in hits : Cardinality({j \in hits : j <= i}) = k]]

\* where sort puts document d among the documents sorted so far: after those
\* that do not come after it (documents with equal timestamps stay in
\* insertion order)
SortInsert(sorted, d, dir) ==
    LET k == Cardinality({j \in 1..Len(sorted) :
                 dir * sorted[j].created_at <= dir * d.created_at})
    IN  SubSeq(sorted, 1, k) \o <<d>> \o SubSeq(sorted, k + 1, Len(sorted))

\* sort, with the first Len(sorted) documents already in order
RECURSIVE SortFrom(_, _, _)
SortFrom(docs, dir, sorted) ==
    IF Len(sorted) = Len(docs) THEN sorted
    ELSE SortFrom(docs, dir, SortInsert(sorted, docs[Len(sorted) + 1], dir))

\* sort("created_at", dir): dir = 1 ascending, dir = -1 descending
Sort(docs, dir) == SortFrom(docs, dir, <<>>)

\* limit(n)
Limit(docs, n) == Prefix(docs, n)

\* count_documents({"conversation_id": id})
count_documents(id) ==
    Cardinality({i \in 1..Len(message) : message[i].conversation_id = id})

\* find_one({"_id": oid}) on the conversation collection: the first match, as a
\* sequence of one document, or the empty sequence (None) when there is none
find_one(oid) == Limit(Find(conversation, "_id", oid), 1)

\* create_document(collection, fields), when the store accepts the write: the
\* document is appended and the store's clock moves on
create_document(collection, fields) ==
    /\ IF collection = "conversation"
       THEN /\ conversation' = Append(conversation, NewDocument(fields))
            /\ UNCHANGED message
       ELSE /\ message' = Append(message, NewDocument(fields))
            /\ UNCHANGED conversation
    /\ clock' = clock + 1
    /\ UNCHANGED <<db, faults>>

\* create_document, when the write fails: it raises and nothing is stored
create_document_raises ==
    /\ faults > 0
    /\ faults' = faults - 1
    /\ UNCHANGED <<db, conversation, message, clock>>


\* ------------------------------------------------------------- requests

Slots == DOMAIN req

Pending == [detail |-> "pending"]

IdleRequest ==
    [op |-> "none", pc |-> "idle", title |-> None, message |-> None,
     conversation_id |-> None, cid |-> None, reply |-> None,
     status |-> 0, body |-> Pending,
     newConv |-> None, userMsg |-> None, asstMsg |-> None]

\* slot r is the next one to take a request
Free(r) ==
    /\ req[r].pc = "idle"
    /\ \A q \in Slots : q < r => req[q].pc # "idle"

\* no request is being handled
Quiescent == \A q \in Slots : req[q].pc \in {"idle", "done"}

\* the request ends with this response
Respond(rq, status, body) ==
    [rq EXCEPT !.pc = "done", !.status = status, !.body = body]

\* an exception no handler catches: the framework answers 500
InternalError(rq) == Respond(rq, 500, [detail |-> "Internal Server Error"])

NotConfigured(rq) == Respond(rq, 500, [detail |-> "Database not configured"])

\* `x is None` in the place of `not x`
Not_isNone(x) == x = None

\* Python's `not x` for an optional string: None or empty
Not(x) == x = None \/ x = <<>>

NewChat == <<"N","e","w"," ","C","h","a","t">>

\* the longest title chat copies from the message
TitleLen == 40

\* the items list_conversations returns at most
ListLimit == 50

\* POST /api/conversations
create_conversation(r, t) ==
    LET rq == [req[r] EXCEPT !.op = "create", !.title = t]
        title == IF Not(t) THEN NewChat ELSE t
    IN  /\ Free(r)
        /\ \/ /\ db = NoDb
              /\ req' = [req EXCEPT ![r] = NotConfigured(rq)]
              /\ UNCHANGED <<db, conversation, message, clock, faults>>
           \/ /\ db # NoDb
              /\ create_document("conversation", [title |-> title])
              /\ req' = [req EXCEPT ![r] =
                     Respond([rq EXCEPT !.newConv = NewDocumentId], 200,
                             [conversation_id |-> NewDocumentId, title |-> title])]
           \/ /\ db # NoDb
              /\ create_document_raises
              /\ req' = [req EXCEPT ![r] = InternalError(rq)]
    /\ UNCHANGED brainVars

\* list_conversations, for one document: serialize it and count its messages
WithCount(it) ==
    LET d == serialize_doc(it)
    IN  [messages_count |-> count_documents(d._id)] @@ d

\* list_conversations, the loop over the items: convos holds the documents
\* done so far
RECURSIVE ForEachItem(_, _)
ForEachItem(items, convos) ==
    IF Len(convos) = Len(items) THEN convos
    ELSE ForEachItem(items, Append(convos, WithCount(items[Len(convos) + 1])))

\* a listing sorted oldest first
list_conversations_oldestFirst(r) ==
    LET rq == [req[r] EXCEPT !.op = "list"]
        convos == ForEachItem(Limit(Sort(conversation, 1), ListLimit), <<>>)
    IN  /\ Free(r)
        /\ req' = [req EXCEPT ![r] =
               IF db = NoDb THEN NotConfigured(rq)
               ELSE Respond(rq, 200, [items |-> convos])]
        /\ UNCHANGED <<db, conversation, message, clock, faults>>
    /\ UNCHANGED brainVars

\* GET /api/conversations
list_conversations(r) ==
    LET rq == [req[r] EXCEPT !.op = "list"]
        convos == ForEachItem(Limit(Sort(conversation, -1), ListLimit), <<>>)
    IN  /\ Free(r)
        /\ req' = [req EXCEPT ![r] =
               IF db = NoDb THEN NotConfigured(rq)
               ELSE Respond(rq, 200, [items |-> convos])]
        /\ UNCHANGED <<db, conversation, message, clock, faults>>
    /\ UNCHANGED brainVars

\* GET /api/conversations/{conversation_id}, to the lookup of the conversation
get_conversation(r, c) ==
    LET rq == [req[r] EXCEPT !.op = "get", !.conversation_id = c]
        convo == find_one(ObjectId(c))
    IN  /\ Free(r)
        /\ req' = [req EXCEPT ![r] =
               IF db = NoDb THEN NotConfigured(rq)
               ELSE IF ~ObjectIdValid(c) THEN InternalError(rq)
               ELSE IF convo = <<>>
                    THEN Respond(rq, 404, [detail |-> "Conversation not found"])
               ELSE [rq EXCEPT !.pc = "messages",
                               !.body = [conversation |-> serialize_doc(convo[1])]]]
        /\ UNCHANGED <<db, conversation, message, clock, faults>>
    /\ UNCHANGED brainVars

\* the messages of a conversation, newest first
ConversationMessages_newestFirst(c) ==
    Sort(Find(message, "conversation_id", c), -1)

\* db["message"].find({"conversation_id": c}).sort("created_at", 1)
ConversationMessages(c) ==
    Sort(Find(message, "conversation_id", c), 1)

\* a get_conversation that marks the messages it returns as read
get_conversation_messages_markRead(r) ==
    LET rq == req[r]
        msgs == ConversationMessages(rq.conversation_id)
    IN  /\ rq.op = "get"
        /\ rq.pc = "messages"
        /\ req' = [req EXCEPT ![r] =
               Respond(rq, 200,
                       [conversation |-> rq.body.conversation,
                        messages |-> [i \in 1..Len(msgs) |-> serialize_doc(msgs[i])]])]
        /\ message' = [i \in 1..Len(message) |->
               IF message[i].conversation_id = rq.conversation_id
               THEN [message[i] EXCEPT !.role = "read"] ELSE message[i]]
        /\ UNCHANGED <<db, conversation, clock, faults>>
    /\ UNCHANGED brainVars

\* get_conversation, from the query of the messages to the response
get_conversation_messages(r) ==
    LET rq == req[r]
        msgs == ConversationMessages(rq.conversation_id)
    IN  /\ rq.op = "get"
        /\ rq.pc = "messages"
        /\ req' = [req EXCEPT ![r] =
               Respond(rq, 200,
                       [conversation |-> rq.body.conversation,
                        messages |-> [i \in 1..Len(msgs) |-> serialize_doc(msgs[i])]])]
        /\ UNCHANGED <<db, conversation, message, clock, faults>>
    /\ UNCHANGED brainVars


\* a request body that validates for any message
ValidChatRequest_anyLength(m) == TRUE

\* ChatRequest: message has min_length=1
ValidChatRequest(m) == Len(m) >= 1

\* POST /api/chat, from the validation of the request to the conversation the
\* turn is stored under
chat(r, m, c) ==
    LET rq == [req[r] EXCEPT !.op = "chat", !.message = m, !.conversation_id = c]
        title == Prefix(m, TitleLen) \o (IF Len(m) > TitleLen THEN <<"...">> ELSE <<>>)
    IN  /\ Free(r)
        /\ \/ /\ ~ValidChatRequest(m)
              /\ req' = [req EXCEPT ![r] =
                     Respond(rq, 422, [detail |-> "string_too_short"])]
              /\ UNCHANGED <<db, conversation, message, clock, faults>>
           \/ /\ ValidChatRequest(m)
              /\ db = NoDb
              /\ req' = [req EXCEPT ![r] = NotConfigured(rq)]
              /\ UNCHANGED <<db, conversation, message, clock, faults>>
           \/ /\ ValidChatRequest(m)
              /\ db # NoDb
              /\ ~Not(c)
              /\ req' = [req EXCEPT ![r] = [rq EXCEPT !.pc = "user", !.cid = c]]
              /\ UNCHANGED <<db, conversation, message, clock, faults>>
           \/ /\ ValidChatRequest(m)
              /\ db # NoDb
              /\ Not(c)
              /\ create_document("conversation", [title |-> title])
              /\ req' = [req EXCEPT ![r] =
                     [rq EXCEPT !.pc = "user", !.cid = NewDocumentId,
                                !.newConv = NewDocumentId]]
           \/ /\ ValidChatRequest(m)
              /\ db # NoDb
              /\ Not(c)
              /\ create_document_raises
              /\ req' = [req EXCEPT ![r] = InternalError(rq)]
    /\ UNCHANGED brainVars

\* a user message stored under the request's conversation_id, not the resolved one
chat_user_requestId(r) ==
    LET rq == req[r]
    IN  /\ rq.op = "chat"
        /\ rq.pc = "user"
        /\ \/ /\ create_document("message",
                     [conversation_id |-> rq.conversation_id, role |-> "user",
                      content |-> rq.message])
              /\ req' = [req EXCEPT ![r] =
                     [rq EXCEPT !.pc = "assistant", !.userMsg = NewDocumentId]]
           \/ /\ create_document_raises
              /\ req' = [req EXCEPT ![r] = InternalError(rq)]
    /\ UNCHANGED brainVars

\* chat: persist user message
chat_user(r) ==
    LET rq == req[r]
    IN  /\ rq.op = "chat"
        /\ rq.pc = "user"
        /\ \/ /\ create_document("message",
                     [conversation_id |-> rq.cid, role |-> "user",
                      content |-> rq.message])
              /\ req' = [req EXCEPT ![r] =
                     [rq EXCEPT !.pc = "assistant", !.userMsg = NewDocumentId]]
           \/ /\ create_document_raises
              /\ req' = [req EXCEPT ![r] = InternalError(rq)]
    /\ UNCHANGED brainVars

\* a chat that removes the turn's user message when the assistant message fails
chat_assistant_rollback(r) ==
    LET rq == req[r]
        reply == codebro_brain(rq.message)
    IN  /\ rq.op = "chat"
        /\ rq.pc = "assistant"
        /\ \/ /\ create_document("message",
                     [conversation_id |-> rq.cid, role |-> "assistant",
                      content |-> reply])
              /\ req' = [req EXCEPT ![r] =
                     Respond([rq EXCEPT !.reply = reply, !.asstMsg = NewDocumentId],
                             200, [conversation_id |-> rq.cid, reply |-> reply])]
           \/ /\ faults > 0
              /\ faults' = faults - 1
              /\ message' = SubSeq(message, 1, Len(message) - 1)
              /\ UNCHANGED <<db, conversation, clock>>
              /\ req' = [req EXCEPT ![r] = InternalError([rq EXCEPT !.reply = reply])]
    /\ UNCHANGED brainVars

\* chat: generate assistant reply, persist assistant message, respond
chat_assistant(r) ==
    LET rq == req[r]
        reply == codebro_brain(rq.message)
    IN  /\ rq.op = "chat"
        /\ rq.pc = "assistant"
        /\ \/ /\ create_document("message",
                     [conversation_id |-> rq.cid, role |-> "assistant",
                      content |-> reply])
              /\ req' = [req EXCEPT ![r] =
                     Respond([rq EXCEPT !.reply = reply, !.asstMsg = NewDocumentId],
                             200, [conversation_id |-> rq.cid, reply |-> reply])]
           \/ /\ create_document_raises
              /\ req' = [req EXCEPT ![r] = InternalError([rq EXCEPT !.reply = reply])]
    /\ UNCHANGED brainVars

\* -------------------------------------------------------------- inputs

\* a message longer than a title
LongMessage ==
    <<"D","e","p","l","o","y"," ","t","h","e"," ","R","e","a","c","t"," ","a","p","p",
      " ","w","i","t","h"," ","P","y","t","h","o","n"," ","a","n","d"," ","M","o","n",
      "g","o","D","B"," ","n","o","w","!">>

\* the titles a caller sends: none, empty, a title
Titles == {None, <<>>, <<"T">>}

\* the messages a caller sends: empty, whitespace only, a greeting
Messages == {<<>>, <<" ">>, kw_hi}

\* the identifiers the store has given to conversations
KnownIds == {ObjectIdStr(conversation[i]._id) : i \in 1..Len(conversation)}

\* a well-formed identifier the store never generates
UnknownId == [i \in 1..(2 * ObjectIdLen) |-> "0"]

\* the path parameters a caller sends to get_conversation: identifiers it was
\* given, as given or in upper case, an unknown one, a malformed one
GetIds == KnownIds \cup {Upper(k) : k \in KnownIds} \cup {UnknownId, <<"x">>}

\* the conversation_id values a caller sends to chat
ChatIds == {None, <<>>, UnknownId, <<"x">>} \cup KnownIds

\* the identifiers of the oldest and the newest conversation
EndIds ==
    {ObjectIdStr(conversation[i]._id) : i \in {1, Len(conversation)} \cap DOMAIN conversation}

\* the responder's inputs: up to n fragments, concatenated
Fragments ==
    {kw_hello, kw_hi, kw_hey, kw_deploy, kw_react, kw_fastapi, kw_python, kw_mongodb,
     kw_database, kw_tailwind, kw_code, kw_bug, kw_error, kw_fix,
     <<" ">>, <<"\n">>, <<"t">>, <<"h">>, <<"i">>, <<"H","e","L","L","o">>,
     <<"D","E","P","L","O","Y">>, <<"a","s","d","f","q","w","e","r","t","y">>}

RECURSIVE Concats(_)
Concats(n) ==
    IF n = 0 THEN {<<>>}
    ELSE Concats(n - 1) \cup {a \o f : a \in Concats(n - 1), f \in Fragments}

HelloDeploy ==
    <<"h","e","l","l","o",","," ","c","a","n"," ","y","o","u"," ","h","e","l","p"," ",
      "m","e"," ","d","e","p","l","o","y">>

WhatDatabase ==
    <<"w","h","a","t"," ","d","a","t","a","b","a","s","e"," ","s","h","o","u","l","d",
      " ","I"," ","u","s","e">>

BrainInputs == Concats(MaxWords) \cup {HelloDeploy, WhatDatabase, LongMessage}

\* ------------------------------------------------------- specifications

\* the store after n create_conversation requests without a title, with k
\* requests to come and f store writes that may fail
InitStore(n, k, f) ==
    /\ conversation =
           [i \in 1..n |->
               [_id |-> NewObjectId(Epoch + i - 1), title |-> NewChat,
                created_at |-> Epoch + i - 1]]
    /\ message = <<>>
    /\ clock = Epoch + n
    /\ faults = f
    /\ req = [r \in 1..k |-> IdleRequest]

BrainIdle ==
    /\ brainIn = <<>>
    /\ brainOut = <<>>
    /\ brainDone = FALSE

\* the handlers, one request at a time, from an empty store
Init ==
    /\ db \in {"ok", NoDb}
    /\ InitStore(0, MaxReqs, MaxFaults)
    /\ BrainIdle

Next ==
    \/ \E r \in Slots, t \in Titles : Quiescent /\ create_conversation(r, t)
    \/ \E r \in Slots : Quiescent /\ list_conversations(r)
    \/ \E r \in Slots, c \in GetIds : Quiescent /\ get_conversation(r, c)
    \/ \E r \in Slots : get_conversation_messages(r)
    \/ \E r \in Slots, m \in Messages, c \in ChatIds : Quiescent /\ chat(r, m, c)
    \/ \E r \in Slots : chat_user(r)
    \/ \E r \in Slots : chat_assistant(r)

Spec == Init /\ [][Next]_vars

\* the handlers that write and list_conversations, one request at a time, from
\* a store that holds one conversation fewer than a listing returns, or as many
InitList ==
    /\ db = "ok"
    /\ \E n \in {ListLimit - 1, ListLimit} : InitStore(n, MaxReqs, MaxFaults)
    /\ BrainIdle

NextList ==
    \/ \E r \in Slots : Quiescent /\ create_conversation(r, None)
    \/ \E r \in Slots : Quiescent /\ list_conversations(r)
    \/ \E r \in Slots, m \in {kw_hi, LongMessage}, c \in {None} \cup EndIds :
           Quiescent /\ chat(r, m, c)
    \/ \E r \in Slots : chat_user(r)
    \/ \E r \in Slots : chat_assistant(r)

SpecList == InitList /\ [][NextList]_vars

\* chat and get_conversation requests handled concurrently, their store
\* operations interleaved, from a store that holds one conversation
InitConc ==
    /\ db = "ok"
    /\ InitStore(1, ConcReqs, MaxFaults)
    /\ BrainIdle

NextConc ==
    \/ \E r \in Slots, m \in {kw_hi, <<"q">>}, c \in {None} \cup KnownIds : chat(r, m, c)
    \/ \E r \in Slots : chat_user(r)
    \/ \E r \in Slots : chat_assistant(r)
    \/ \E r \in Slots, c \in KnownIds : get_conversation(r, c)
    \/ \E r \in Slots : get_conversation_messages(r)

SpecConc == InitConc /\ [][NextConc]_vars

\* the responder alone, applied to one input
InitBrain ==
    /\ db = "ok"
    /\ InitStore(0, 0, 0)
    /\ brainIn \in BrainInputs
    /\ brainOut = <<>>
    /\ brainDone = FALSE

BrainApply ==
    /\ ~brainDone
    /\ brainOut' = codebro_brain(brainIn)
    /\ brainDone' = TRUE
    /\ UNCHANGED <<brainIn, db, conversation, message, clock, faults, req>>

NextBrain == BrainApply

SpecBrain == InitBrain /\ [][NextBrain]_vars


\* --------------------------------------------------------------- claims

\* the positions of the stored message with this identifier
MessageAt(id) == {i \in 1..Len(message) : ObjectIdStr(message[i]._id) = id}

\* the positions of the stored conversation with this identifier
ConversationAt(id) ==
    {i \in 1..Len(conversation) : ObjectIdStr(conversation[i]._id) = id}

\* request r is a chat request that has been answered
ChatDone(r) == req[r].op = "chat" /\ req[r].pc = "done"

\* no request came after request r
Latest(r) == \A q \in Slots : q > r => req[q].pc = "idle"

\* whether a caller's identifier resolves to a stored conversation
Resolves(c) ==
    /\ ObjectIdValid(c)
    /\ \E i \in 1..Len(conversation) : conversation[i]._id = ObjectId(c)

AllWhitespace(m) == \A i \in 1..Len(m) : m[i] \in Whitespace

\* every stored conversation was created by a request that recorded it, and
\* every stored message is the user or the assistant message of a chat request
ConversationsAccounted ==
    Len(conversation) = Cardinality({r \in Slots : req[r].newConv # None})

MessagesAccounted ==
    /\ Cardinality({i \in 1..Len(message) : message[i].role = "user"})
           = Cardinality({r \in Slots : req[r].userMsg # None})
    /\ Cardinality({i \in 1..Len(message) : message[i].role = "assistant"})
           = Cardinality({r \in Slots : req[r].asstMsg # None})
    /\ \A i \in 1..Len(message) : message[i].role \in {"user", "assistant"}

\* C1: a successful chat without a conversation_id adds exactly one
\* conversation and exactly two messages: the user message with the request's
\* message, then the assistant message with the returned reply, both under the
\* returned conversation_id, the identifier of the new conversation.
C1_ChatCreatesOneConversationTwoMessages ==
    \A r \in Slots :
        (ChatDone(r) /\ req[r].status = 200 /\ req[r].conversation_id = None) =>
            LET rq == req[r]
                id == rq.body.conversation_id
            IN  /\ rq.newConv = id
                /\ Cardinality(ConversationAt(id)) = 1
                /\ Cardinality(MessageAt(rq.userMsg)) = 1
                /\ Cardinality(MessageAt(rq.asstMsg)) = 1
                /\ \A i \in MessageAt(rq.userMsg), j \in MessageAt(rq.asstMsg) :
                       /\ i < j
                       /\ message[i].role = "user"
                       /\ message[i].content = rq.message
                       /\ message[i].conversation_id = id
                       /\ message[j].role = "assistant"
                       /\ message[j].content = rq.body.reply
                       /\ message[j].conversation_id = id
                /\ ConversationsAccounted
                /\ MessagesAccounted
                \* alone in the run, the request leaves exactly these documents
                /\ (\A q \in Slots : q # r => req[q].pc = "idle") =>
                       Len(conversation) = 1 /\ Len(message) = 2

C1_Witness ==
    \E r \in Slots :
        /\ ChatDone(r) /\ req[r].status = 200 /\ req[r].conversation_id = None
        /\ \A q \in Slots : q # r => req[q].pc = "idle"

\* C2: every stored message's conversation_id is the identifier of a stored
\* conversation.
C2_MessagesResolve ==
    \A i \in 1..Len(message) : Resolves(message[i].conversation_id)

\* C3: get_conversation answers NotFound, and no other error, for every id that
\* does not resolve to a stored conversation, and for an id that resolves it
\* returns that conversation with its messages.
C3_GetNotFoundOrFound ==
    \A r \in Slots :
        (req[r].op = "get" /\ req[r].pc = "done" /\ db # NoDb /\ Latest(r)) =>
            LET rq == req[r]
                c == rq.conversation_id
            IN  IF ~Resolves(c) THEN rq.status = 404
                ELSE LET id == ObjectIdStr(ObjectId(c))
                     IN  /\ rq.status = 200
                         /\ rq.body.conversation._id = id
                         /\ Len(rq.body.messages)
                                = Cardinality({i \in 1..Len(message) :
                                      message[i].conversation_id = id})
                         /\ \A i \in 1..Len(rq.body.messages) :
                                rq.body.messages[i].conversation_id = id

\* C4: list_conversations returns at most ListLimit conversations, the most
\* recently created ones, ordered by creation timestamp descending, each with
\* messages_count equal to the number of stored messages whose conversation_id
\* is that conversation's id.
C4_ListNewestWithCounts ==
    \A r \in Slots :
        (req[r].op = "list" /\ req[r].pc = "done" /\ req[r].status = 200 /\ Latest(r)) =>
            /\ Len(req[r].body.items) = IF Len(conversation) < ListLimit
                                        THEN Len(conversation) ELSE ListLimit
            /\ Len(req[r].body.items) <= ListLimit
            \* each item is a stored conversation, with its count, and is newer
            \* than the item after it
            /\ \A i \in 1..Len(req[r].body.items) :
                   LET it == req[r].body.items[i]
                   IN  /\ \E k \in 1..Len(conversation) :
                              /\ it._id = ObjectIdStr(conversation[k]._id)
                              /\ it.title = conversation[k].title
                              /\ it.created_at = isoformat(conversation[k].created_at)
                       /\ i < Len(req[r].body.items) =>
                              it.created_at.isoformat
                                  > req[r].body.items[i + 1].created_at.isoformat
                       /\ it.messages_count
                              = Cardinality({j \in 1..Len(message) :
                                    message[j].conversation_id = it._id})
            \* no stored conversation that is not listed is as new as a listed one
            /\ Len(req[r].body.items) > 0 =>
                   Cardinality({k \in 1..Len(conversation) :
                       conversation[k].created_at
                           >= req[r].body.items[Len(req[r].body.items)].created_at.isoformat})
                       = Len(req[r].body.items)

C4_Witness ==
    \E r \in Slots :
        /\ req[r].op = "list" /\ req[r].pc = "done" /\ req[r].status = 200 /\ Latest(r)
        /\ Len(conversation) > ListLimit
        /\ req[r].body.items[1].messages_count = 2


\* the responder's rules as the ordered list the claim gives: keywords, reply
Rules ==
    << [keywords |-> {kw_hello, kw_hi, kw_hey}, reply |-> GreetingReply],
       [keywords |-> {kw_deploy}, reply |-> DeployReply],
       [keywords |-> {kw_react}, reply |-> ReactReply],
       [keywords |-> {kw_fastapi, kw_python}, reply |-> FastapiReply],
       [keywords |-> {kw_mongodb, kw_mongo, kw_database}, reply |-> MongoReply],
       [keywords |-> {kw_tailwind}, reply |-> TailwindReply],
       [keywords |-> {kw_code, kw_bug, kw_error, kw_fix}, reply |-> DebugReply] >>

\* the rules one of whose keywords is a substring of the trimmed lowercased input
Matching(input) ==
    {n \in 1..Len(Rules) : \E k \in Rules[n].keywords : In(k, Lower(Strip(input)))}

\* C5: the responder returns the reply of the first rule, in the fixed order,
\* one of whose keywords is a substring of the trimmed lowercased input; when no
\* rule matches, the default reply, which contains the trimmed original input
\* verbatim; the reply is never empty.
C5_ResponderFirstMatchWins ==
    brainDone =>
        LET hits == Matching(brainIn)
        IN  /\ Len(brainOut) > 0
            /\ \A i \in 1..Len(brainOut) : brainOut[i] # ""
            /\ hits # {} =>
                   brainOut = Rules[CHOOSE n \in hits : \A k \in hits : n <= k].reply
            /\ hits = {} =>
                   /\ \A n \in 1..Len(Rules) : brainOut # Rules[n].reply
                   /\ brainOut[1] = DefaultHead[1]
                   /\ brainOut[Len(brainOut)] = DefaultTail[1]
                   /\ SubSeq(brainOut, 2, Len(brainOut) - 1) = Strip(brainIn)
            /\ (In(kw_hello, Lower(brainIn)) /\ In(kw_deploy, Lower(brainIn))) =>
                   brainOut = GreetingReply

C5_Witness ==
    /\ brainDone
    /\ brainIn = HelloDeploy
    /\ brainOut = GreetingReply

\* C6 as stated: a chat request whose message is empty or only whitespace is
\* rejected with a validation error before the responder is invoked, and
\* persists nothing (with the store configured).
C6_BlankRejected ==
    \A r \in Slots :
        (req[r].op = "chat" /\ AllWhitespace(req[r].message) /\ db # NoDb) =>
            /\ req[r].pc = "done" => req[r].status = 422
            /\ req[r].reply = None
            /\ req[r].newConv = None /\ req[r].userMsg = None /\ req[r].asstMsg = None
            /\ ConversationsAccounted
            /\ MessagesAccounted

\* C6, amended: a chat request whose message is empty is rejected with a
\* validation error before the responder is invoked, and persists nothing; a
\* message of whitespace only is not empty and is not rejected: answered 200,
\* its turn is stored and its reply is the default reply around an empty echo.
C6_EmptyRejected ==
    \A r \in Slots :
        req[r].op = "chat" =>
            /\ Len(req[r].message) = 0 =>
                   /\ req[r].pc = "done"
                   /\ req[r].status = 422
                   /\ req[r].reply = None
                   /\ req[r].newConv = None
                   /\ req[r].userMsg = None
                   /\ req[r].asstMsg = None
                   /\ ConversationsAccounted
                   /\ MessagesAccounted
            /\ Len(req[r].message) > 0 =>
                   /\ req[r].status # 422
                   /\ (AllWhitespace(req[r].message) /\ req[r].status = 200) =>
                          /\ req[r].body.reply = DefaultHead \o DefaultTail
                          /\ Cardinality(MessageAt(req[r].userMsg)) = 1
                          /\ Cardinality(MessageAt(req[r].asstMsg)) = 1

C6_Witness ==
    \E r, q \in Slots :
        /\ ChatDone(r) /\ req[r].message = <<>> /\ req[r].status = 422
        /\ ChatDone(q) /\ req[q].message = <<" ">> /\ req[q].status = 200

\* C7: when persisting the assistant message fails after the user message was
\* persisted, the request fails, the user message and any conversation the turn
\* created remain stored, and no assistant message of that turn exists.
C7_NoRollback ==
    \A r \in Slots :
        (ChatDone(r) /\ req[r].userMsg # None /\ req[r].asstMsg = None) =>
            LET rq == req[r]
            IN  /\ rq.status = 500
                /\ Cardinality(MessageAt(rq.userMsg)) = 1
                /\ \A i \in MessageAt(rq.userMsg) :
                       /\ message[i].role = "user"
                       /\ message[i].content = rq.message
                       /\ message[i].conversation_id = rq.cid
                /\ rq.newConv # None =>
                       /\ rq.newConv = rq.cid
                       /\ Cardinality(ConversationAt(rq.newConv)) = 1
                /\ MessagesAccounted

C7_Witness ==
    \E r \in Slots :
        /\ ChatDone(r) /\ req[r].userMsg # None /\ req[r].asstMsg = None
        /\ req[r].newConv # None
        /\ req[r].status = 500
        /\ \E q \in Slots : q > r /\ req[q].pc = "done"

\* C8: conversations and messages are never changed or deleted: every stored
\* document is in the next state at the same place with the same identifier
\* and fields; a step of a list or get request changes no collection.
C8_Immutable ==
    [][ /\ \A i \in 1..Len(conversation) :
               i <= Len(conversation') /\ conversation'[i] = conversation[i]
        /\ \A i \in 1..Len(message) :
               i <= Len(message') /\ message'[i] = message[i]
        /\ \A r \in Slots :
               (req'[r].pc # req[r].pc /\ req'[r].op \in {"list", "get"}) =>
                   (conversation' = conversation /\ message' = message)
      ]_vars

C8_Witness ==
    \E r, q \in Slots :
        /\ ChatDone(r) /\ req[r].status = 200
        /\ q > r
        /\ req[q].op = "get" /\ req[q].pc = "done" /\ req[q].status = 200
        /\ Len(req[q].body.messages) = 2

\* C10: chat creates a conversation exactly when conversation_id is absent or
\* empty; for a non-empty conversation_id, resolving or not, it creates none,
\* stores both messages under exactly that id and returns that id.
C10_CreatesIffAbsentOrEmpty ==
    \A r \in Slots :
        req[r].op = "chat" =>
            LET rq == req[r]
                absent == rq.conversation_id = None \/ rq.conversation_id = <<>>
            IN  /\ rq.newConv # None => absent
                /\ (absent /\ rq.pc # "done") => rq.newConv # None
                /\ (rq.pc = "done" /\ rq.status = 200) =>
                       /\ absent <=> rq.newConv # None
                       /\ absent => rq.body.conversation_id = rq.newConv
                       /\ ~absent => rq.body.conversation_id = rq.conversation_id
                       /\ \A i \in MessageAt(rq.userMsg) \cup MessageAt(rq.asstMsg) :
                              message[i].conversation_id = rq.body.conversation_id
                       /\ Cardinality(MessageAt(rq.userMsg) \cup MessageAt(rq.asstMsg)) = 2
                /\ ~absent =>
                       \A i \in MessageAt(rq.userMsg) \cup MessageAt(rq.asstMsg) :
                           message[i].conversation_id = rq.conversation_id
                /\ ConversationsAccounted

C10_Witness ==
    \E r, q \in Slots :
        /\ ChatDone(r) /\ req[r].status = 200 /\ req[r].conversation_id = <<>>
        /\ req[r].newConv # None
        /\ ChatDone(q) /\ req[q].status = 200 /\ req[q].conversation_id = UnknownId
        /\ req[q].newConv = None


\* the place of the message with this identifier among serialized messages
PlaceIn(msgs, id) == {i \in 1..Len(msgs) : msgs[i]._id = id}

\* the chat turns stored under conversation id c
Turns(c) == {r \in Slots : req[r].op = "chat" /\ req[r].cid = c}

\* C9: when every chat turn on a conversation has completed, however the turns
\* interleaved, the conversation holds exactly two messages per turn, one user
\* and one assistant, and in the creation-ascending order get_conversation
\* returns, each turn's user message comes before that turn's assistant
\* message; a get_conversation answered meanwhile never shows a turn's
\* assistant message without its user message before it.
C9_TurnOrder ==
    /\ \A c \in {req[r].cid : r \in Slots} \ {None} :
           (\A r \in Turns(c) : req[r].pc = "done" /\ req[r].status = 200) =>
               LET msgs == ConversationMessages(c)
                   out == [i \in 1..Len(msgs) |-> serialize_doc(msgs[i])]
               IN  /\ Len(out) = 2 * Cardinality(Turns(c))
                   /\ \A r \in Turns(c) :
                          /\ Cardinality(PlaceIn(out, req[r].userMsg)) = 1
                          /\ Cardinality(PlaceIn(out, req[r].asstMsg)) = 1
                          /\ \A i \in PlaceIn(out, req[r].userMsg),
                                j \in PlaceIn(out, req[r].asstMsg) :
                                 /\ i < j
                                 /\ out[i].role = "user"
                                 /\ out[j].role = "assistant"
    /\ \A g \in Slots :
           (req[g].op = "get" /\ req[g].pc = "done" /\ req[g].status = 200) =>
               \A r \in Turns(req[g].conversation_id) :
                   \A j \in PlaceIn(req[g].body.messages, req[r].asstMsg) :
                       \E i \in PlaceIn(req[g].body.messages, req[r].userMsg) : i < j

\* two completed turns on one conversation whose messages interleave
C9_Witness ==
    \E r, q \in Slots :
        /\ r # q
        /\ ChatDone(r) /\ req[r].status = 200
        /\ ChatDone(q) /\ req[q].status = 200
        /\ req[r].cid = req[q].cid
        /\ LET msgs == ConversationMessages(req[r].cid)
               out == [i \in 1..Len(msgs) |-> serialize_doc(msgs[i])]
           IN  \E i \in PlaceIn(out, req[r].userMsg), k \in PlaceIn(out, req[q].userMsg),
                  j \in PlaceIn(out, req[r].asstMsg) : i < k /\ k < j

=============================================================================
